---- MODULE Spec2Model ----
(***************************************************************************)
(* A model of weather.py: the command-line validator error_handler, the   *)
(* dispatcher main, the fetcher weather_data and the renderer              *)
(* create_table, with the two outbound calls (geocoding, forecast GET)     *)
(* as nondeterministic steps.                                              *)
(*                                                                         *)
(* Python strings are sequences of one-character strings, so that float(), *)
(* int(), str.isnumeric(), datetime.fromisoformat(), strftime() and        *)
(* str.capitalize() are computed character by character.                   *)
(***************************************************************************)
EXTENDS Integers, Sequences, FiniteSets, TLC

VARIABLES
    pc,         \* position of the run inside main / weather_data
    argv,       \* sys.argv[1:]
    args,       \* what error_handler returned (NoneValue or the list)
    location,   \* weather_data's location parameter
    days,       \* weather_data's days parameter
    geo,        \* result of the geocoding call
    data,       \* responses.json()
    rows,       \* rows handed to the DataFrame by create_table
    stdout,     \* the lines printed so far
    calls       \* the outbound calls made so far, in order

vars == <<pc, argv, args, location, days, geo, data, rows, stdout, calls>>

----------------------------------------------------------------------------
(* Bounds of the model. *)

\* longest argument list tried (the validator distinguishes 0, 1, 2, more)
MaxArgs == 3

\* longest daily sequence of a forecast response
MaxDays == 2

----------------------------------------------------------------------------
(* Program constants. *)

DEFAULT_DAYS == 3

MSG_NO_LOCATION == "Input Error: Location not provided."

MSG_TOO_MANY == "Input Error: Too many arguments. Expected 2, got "

MSG_FIRST_1 == "Error: First argument must be a string."

MSG_FIRST_2 == "Error: The first argument should be a string."

MSG_SECOND == "Error: The second argument should be an integer."

MSG_NO_DATA == "No data from query."

MSG_USAGE == "<--------------------> USAGE <-------------------->"

MSG_FORECAST == "Weather forecast for"

----------------------------------------------------------------------------
(* Characters and the Python string functions the script uses. *)

DigitChars == <<"0", "1", "2", "3", "4", "5", "6", "7", "8", "9">>

Digits == {DigitChars[i] : i \in 1..10}

DigitVal(c) == (CHOOSE i \in 1..10 : DigitChars[i] = c) - 1

LowerChars == <<"a", "e", "f", "i", "k", "n", "o", "t", "v">>

UpperChars == <<"A", "E", "F", "I", "K", "N", "O", "T", "V">>

NLetters == Len(LowerChars)

\* str.upper() of one character
Upper(c) ==
    IF \E i \in 1..NLetters : LowerChars[i] = c
    THEN UpperChars[CHOOSE i \in 1..NLetters : LowerChars[i] = c]
    ELSE c

\* str.lower() of one character
Lower(c) ==
    IF \E i \in 1..NLetters : UpperChars[i] = c
    THEN LowerChars[CHOOSE i \in 1..NLetters : UpperChars[i] = c]
    ELSE c

\* str.capitalize(): first character upper-cased, the rest lower-cased
capitalize(s) ==
    [i \in 1..Len(s) |-> IF i = 1 THEN Upper(s[i]) ELSE Lower(s[i])]

AllDigits(s) == Len(s) > 0 /\ \A i \in 1..Len(s) : s[i] \in Digits

AllZeroDigits(s) == \A i \in 1..Len(s) : s[i] = "0"

StripSign(s) ==
    IF Len(s) > 0 /\ s[1] \in {"+", "-"} THEN Tail(s) ELSE s

\* index of the first occurrence of one of the characters of cs in s, 0 if none
FirstIndex(s, cs) ==
    IF \E i \in 1..Len(s) : s[i] \in cs
    THEN CHOOSE i \in 1..Len(s) :
             s[i] \in cs /\ \A j \in 1..(i - 1) : s[j] \notin cs
    ELSE 0

\* decimal value of a sequence of digits
RECURSIVE DigitsValue(_)
DigitsValue(s) ==
    IF Len(s) = 0 THEN 0
    ELSE 10 * DigitsValue(SubSeq(s, 1, Len(s) - 1)) + DigitVal(s[Len(s)])

\* str.isnumeric() on the characters of the model (the decimal digits are
\* the only numeric characters among them); false for the empty string
isnumeric(s) == AllDigits(s)

\* float(s): "ValueError" when s is no float literal, otherwise whether the
\* value is zero (all the script uses of the value is its truth).
\* Literal: [sign] (digits [. [digits]] | . digits) [(e|E) [sign] digits],
\* or [sign] nan | inf | infinity, in any letter case.
float(s) ==
    LET body == StripSign(s)
        low  == [i \in 1..Len(body) |-> Lower(body[i])]
        epos == FirstIndex(low, {"e"})
        mant == IF epos = 0 THEN low ELSE SubSeq(low, 1, epos - 1)
        expo == IF epos = 0 THEN <<>> ELSE SubSeq(low, epos + 1, Len(low))
        dpos == FirstIndex(mant, {"."})
        ipart == IF dpos = 0 THEN mant ELSE SubSeq(mant, 1, dpos - 1)
        fpart == IF dpos = 0 THEN <<>> ELSE SubSeq(mant, dpos + 1, Len(mant))
        mantOk == /\ Len(ipart) + Len(fpart) > 0
                  /\ Len(ipart) = 0 \/ AllDigits(ipart)
                  /\ Len(fpart) = 0 \/ AllDigits(fpart)
        expoOk == epos = 0 \/ AllDigits(StripSign(expo))
    IN  IF low \in {<<"n", "a", "n">>, <<"i", "n", "f">>,
                    <<"i", "n", "f", "i", "n", "i", "t", "y">>}
        THEN "nonzero"
        ELSE IF mantOk /\ expoOk
        THEN IF AllZeroDigits(ipart) /\ AllZeroDigits(fpart)
             THEN "zero" ELSE "nonzero"
        ELSE "ValueError"

\* int(s): [ok |-> FALSE] is ValueError, otherwise the value.
\* Literal: [sign] digits.
int(s) ==
    LET body == StripSign(s)
    IN  IF AllDigits(body)
        THEN [ok |-> TRUE,
              val |-> IF Len(s) > 0 /\ s[1] = "-"
                      THEN 0 - DigitsValue(body) ELSE DigitsValue(body)]
        ELSE [ok |-> FALSE, val |-> 0]

----------------------------------------------------------------------------
(* Command-line arguments tried. *)

Tokens ==
    { <<"K", "o", "t", "k", "a">>,      \* Kotka
      <<"f", "i", "v", "e">>,           \* five
      <<>>,                             \* the empty string
      <<"4", "2">>,
      <<"0">>,
      <<"0", ".", "0">>,
      <<"-", "0">>,
      <<"1", "e", "3">>,
      <<"5", ".", "5">>,
      <<"n", "a", "n">>,
      <<"1">>,
      <<"5">>,
      <<"7">>,
      <<"8">>,
      <<"9">>,
      <<"-", "1">>,
      <<"+", "5">> }

ArgLists == UNION {[1..n -> Tokens] : n \in 0..MaxArgs}

----------------------------------------------------------------------------
(* error_handler *)

\* a printed line: its fixed text and the values formatted into it
LineOf(text, n, s, lat, lon) ==
    [text |-> text, n |-> n, s |-> s, lat |-> lat, lon |-> lon]

Line(text) == LineOf(text, 0, <<>>, 0, 0)

LineN(text, n) == LineOf(text, n, <<>>, 0, 0)

NoneValue == [none |-> TRUE, val |-> <<>>]

Some(v) == [none |-> FALSE, val |-> v]

\* One argument (lines 186-195): float(location) truthy raises TypeError,
\* which is printed; ValueError returns the arguments; a zero value does
\* neither and the function falls off its end.
error_handler_one(user_args) ==
    LET f == float(user_args[1])
    IN  IF f = "ValueError" THEN [ret |-> Some(user_args), out |-> <<>>]
        ELSE IF f = "nonzero" THEN [ret |-> NoneValue, out |-> <<Line(MSG_FIRST_1)>>]
        ELSE [ret |-> NoneValue, out |-> <<>>]

\* First argument of two (lines 202-212): TRUE when the loop goes on to the
\* second argument, FALSE when the TypeError is printed and the loop broken.
first_of_two_passes(arg) ==
    LET f == float(arg)
    IN  IF f = "ValueError" THEN TRUE
        ELSE IF f = "nonzero" \/ isnumeric(arg) THEN FALSE
        ELSE TRUE

\* Second argument of two (lines 214-219): valid only when int(arg) is
\* truthy; ValueError prints the message.
error_handler_two(user_args) ==
    IF ~first_of_two_passes(user_args[1])
    THEN [ret |-> NoneValue, out |-> <<Line(MSG_FIRST_2)>>]
    ELSE LET n == int(user_args[2])
         IN  IF ~n.ok THEN [ret |-> NoneValue, out |-> <<Line(MSG_SECOND)>>]
             ELSE IF n.val # 0 THEN [ret |-> Some(user_args), out |-> <<>>]
             ELSE [ret |-> NoneValue, out |-> <<>>]

\* error_handler with the length test off by one (len(user_args) > 3)
error_handler_len3(user_args) ==
    IF Len(user_args) = 0
    THEN [ret |-> NoneValue, out |-> <<Line(MSG_NO_LOCATION)>>]
    ELSE IF Len(user_args) > 3
    THEN [ret |-> NoneValue, out |-> <<LineN(MSG_TOO_MANY, Len(user_args))>>]
    ELSE IF Len(user_args) = 1
    THEN error_handler_one(user_args)
    ELSE error_handler_two(user_args)

error_handler(user_args) ==
    IF Len(user_args) = 0
    THEN [ret |-> NoneValue, out |-> <<Line(MSG_NO_LOCATION)>>]
    ELSE IF Len(user_args) > 2
    THEN [ret |-> NoneValue, out |-> <<LineN(MSG_TOO_MANY, Len(user_args))>>]
    ELSE IF Len(user_args) = 1
    THEN error_handler_one(user_args)
    ELSE error_handler_two(user_args)

----------------------------------------------------------------------------
(* Dates and times: datetime.fromisoformat and strftime. *)

\* n as w decimal digits, zero padded
RECURSIVE Pad(_, _)
Pad(n, w) ==
    IF w = 0 THEN <<>>
    ELSE Append(Pad(n \div 10, w - 1), DigitChars[(n % 10) + 1])

DaysInMonth(y, m) ==
    IF m \in {4, 6, 9, 11} THEN 30
    ELSE IF m = 2
    THEN IF (y % 4 = 0 /\ y % 100 # 0) \/ y % 400 = 0 THEN 29 ELSE 28
    ELSE 31

\* datetime.fromisoformat for the two shapes the forecast API sends:
\* YYYY-MM-DD and YYYY-MM-DDTHH:MM; anything else is ValueError (ok = FALSE)
fromisoformat(s) ==
    LET bad == [ok |-> FALSE, year |-> 0, month |-> 0, day |-> 0,
                hour |-> 0, minute |-> 0]
        dateOk == /\ Len(s) \in {10, 16}
                  /\ AllDigits(SubSeq(s, 1, 4))
                  /\ s[5] = "-"
                  /\ AllDigits(SubSeq(s, 6, 7))
                  /\ s[8] = "-"
                  /\ AllDigits(SubSeq(s, 9, 10))
        timeOk == \/ Len(s) = 10
                  \/ /\ s[11] = "T"
                     /\ AllDigits(SubSeq(s, 12, 13))
                     /\ s[14] = ":"
                     /\ AllDigits(SubSeq(s, 15, 16))
    IN  IF ~(dateOk /\ timeOk) THEN bad
        ELSE LET y  == DigitsValue(SubSeq(s, 1, 4))
                 m  == DigitsValue(SubSeq(s, 6, 7))
                 d  == DigitsValue(SubSeq(s, 9, 10))
                 hh == IF Len(s) = 10 THEN 0 ELSE DigitsValue(SubSeq(s, 12, 13))
                 mm == IF Len(s) = 10 THEN 0 ELSE DigitsValue(SubSeq(s, 15, 16))
             IN  IF /\ y >= 1
                    /\ m \in 1..12
                    /\ d >= 1 /\ d <= DaysInMonth(y, m)
                    /\ hh <= 23 /\ mm <= 59
                 THEN [ok |-> TRUE, year |-> y, month |-> m, day |-> d,
                       hour |-> hh, minute |-> mm]
                 ELSE bad

\* strftime("%d.%m.%Y")
strftime_dmY(t) == Pad(t.day, 2) \o <<".">> \o Pad(t.month, 2) \o <<".">> \o Pad(t.year, 4)

\* strftime("%H:%M")
strftime_HM(t) == Pad(t.hour, 2) \o <<":">> \o Pad(t.minute, 2)

----------------------------------------------------------------------------
(* The forecast response: a JSON value.  type is the JSON type; a dict has  *)
(* the keys in keys; daily is the "daily" object, with the columns in dkeys. *)

DAILY_COLUMNS ==
    {"time", "temperature_2m_max", "temperature_2m_min",
     "apparent_temperature_max", "apparent_temperature_min",
     "sunrise", "sunset", "rain_sum"}

EmptyDaily ==
    [time |-> <<>>, temperature_2m_max |-> <<>>, temperature_2m_min |-> <<>>,
     apparent_temperature_max |-> <<>>, apparent_temperature_min |-> <<>>,
     sunrise |-> <<>>, sunset |-> <<>>, rain_sum |-> <<>>]

Json(type, len, keys, lat, lon, dkeys, daily) ==
    [type |-> type, len |-> len, keys |-> keys, latitude |-> lat,
     longitude |-> lon, dkeys |-> dkeys, daily |-> daily]

JsonScalar(type, len) == Json(type, len, {}, 0, 0, {}, EmptyDaily)

\* the API's ISO-8601 texts
IsoDate(y, m, d) == Pad(y, 4) \o <<"-">> \o Pad(m, 2) \o <<"-">> \o Pad(d, 2)

IsoDateTime(y, m, d, hh, mm) ==
    IsoDate(y, m, d) \o <<"T">> \o Pad(hh, 2) \o <<":">> \o Pad(mm, 2)

\* the daily block for the day offsets ds: every column of day k holds a
\* value that no other day and no other numeric column holds
DailyOf(ds) ==
    [time                     |-> [i \in 1..Len(ds) |-> IsoDate(2025, 9, 26 + ds[i])],
     temperature_2m_max       |-> [i \in 1..Len(ds) |-> 40 + ds[i]],
     temperature_2m_min       |-> [i \in 1..Len(ds) |-> 30 + ds[i]],
     apparent_temperature_max |-> [i \in 1..Len(ds) |-> 20 + ds[i]],
     apparent_temperature_min |-> [i \in 1..Len(ds) |-> 10 + ds[i]],
     sunrise                  |-> [i \in 1..Len(ds) |-> IsoDateTime(2025, 9, 26 + ds[i], 6, 10 + ds[i])],
     sunset                   |-> [i \in 1..Len(ds) |-> IsoDateTime(2025, 9, 26 + ds[i], 19, 40 - ds[i])],
     rain_sum                 |-> [i \in 1..Len(ds) |-> ds[i]]]

DaySeqs == UNION {[1..n -> 1..MaxDays] : n \in 0..MaxDays}

\* column c one element shorter than the others
Shortened(daily, c) ==
    [daily EXCEPT ![c] = IF Len(@) = 0 THEN @ ELSE SubSeq(@, 1, Len(@) - 1)]

\* a date the API would not send: month 13
BadDate == <<"2", "0", "2", "5", "-", "1", "3", "-", "0", "1">>

FullKeys == {"latitude", "longitude", "daily"}

WellFormed ==
    {Json("dict", 3, FullKeys, 60, 27, DAILY_COLUMNS, DailyOf(ds)) : ds \in DaySeqs}

Ragged ==
    {Json("dict", 3, FullKeys, 60, 27, DAILY_COLUMNS, Shortened(DailyOf(ds), c)) :
        ds \in DaySeqs, c \in DAILY_COLUMNS}

Malformed ==
    { Json("dict", 2, {"error", "reason"}, 0, 0, {}, EmptyDaily),
      Json("dict", 1, {"daily"}, 0, 0, DAILY_COLUMNS, DailyOf(<<1>>)),
      Json("dict", 3, FullKeys, 60, 27, DAILY_COLUMNS \ {"rain_sum"}, DailyOf(<<1>>)),
      Json("dict", 3, FullKeys, 60, 27, DAILY_COLUMNS,
           [DailyOf(<<1>>) EXCEPT !.time = <<BadDate>>]),
      Json("dict", 3, FullKeys, 60, 27, DAILY_COLUMNS,
           [DailyOf(<<1>>) EXCEPT !.sunset = <<BadDate \o <<"T">> >>]),
      JsonScalar("list", 1),
      JsonScalar("number", 1),
      JsonScalar("string", 1),
      JsonScalar("true", 1) }

Falsy ==
    { JsonScalar("null", 0), JsonScalar("false", 0), JsonScalar("number", 0),
      JsonScalar("string", 0), JsonScalar("list", 0), JsonScalar("dict", 0) }

Payloads == WellFormed \cup Ragged \cup Malformed \cup Falsy

\* "if data is not None" in place of "if data"
Truthy_notNone(d) == d.type # "null"

\* Python truth of a JSON value (line 65, "if data"): None, False, 0 and the
\* empty string, list and dict are false
Truthy(d) ==
    IF d.type \in {"null", "false"} THEN FALSE
    ELSE IF d.type = "true" THEN TRUE
    ELSE d.len # 0

----------------------------------------------------------------------------
(* create_table *)

Min(S) == CHOOSE x \in S : \A y \in S : x <= y

\* zip with the last column read from its end
zip8_lastReversed(a, b, c, d, e, f, g, h) ==
    [i \in 1..Min({Len(a), Len(b), Len(c), Len(d), Len(e), Len(f), Len(g), Len(h)})
        |-> <<a[i], b[i], c[i], d[i], e[i], f[i], g[i], h[Len(h) + 1 - i]>>]

\* zip(...): as many tuples as the shortest sequence has elements
zip8(a, b, c, d, e, f, g, h) ==
    [i \in 1..Min({Len(a), Len(b), Len(c), Len(d), Len(e), Len(f), Len(g), Len(h)})
        |-> <<a[i], b[i], c[i], d[i], e[i], f[i], g[i], h[i]>>]

\* [raised, rows, out]: raised when a subscript or a conversion raises
\* (nothing is printed then: the three prints are the last statements)
create_table(loc, ndays, d) ==
    LET failed == [raised |-> TRUE, rows |-> <<>>, out |-> <<>>]
        daily  == d.daily
        isoOk(col) == \A i \in 1..Len(col) : fromisoformat(col[i]).ok
    IN  IF d.type # "dict" \/ "daily" \notin d.keys THEN failed
        ELSE IF DAILY_COLUMNS \ d.dkeys # {} THEN failed
        ELSE IF ~(isoOk(daily.time) /\ isoOk(daily.sunrise) /\ isoOk(daily.sunset))
        THEN failed
        ELSE LET day == [i \in 1..Len(daily.time) |->
                            strftime_dmY(fromisoformat(daily.time[i]))]
                 daily_sunrise == [i \in 1..Len(daily.sunrise) |->
                            strftime_HM(fromisoformat(daily.sunrise[i]))]
                 daily_sunset == [i \in 1..Len(daily.sunset) |->
                            strftime_HM(fromisoformat(daily.sunset[i]))]
                 zipped == zip8(day,
                                daily.temperature_2m_max,
                                daily.temperature_2m_min,
                                daily.apparent_temperature_max,
                                daily.apparent_temperature_min,
                                daily_sunrise,
                                daily_sunset,
                                daily.rain_sum)
                 plural == IF ndays > 1 THEN "s" ELSE ""
             IN  IF {"latitude", "longitude"} \ d.keys # {} THEN failed
                 ELSE [raised |-> FALSE,
                       rows   |-> zipped,
                       out    |-> << LineOf(MSG_FORECAST \o plural, ndays,
                                            capitalize(loc), d.latitude, d.longitude),
                                     Line(""),
                                     LineN("DataFrame", Len(zipped)) >>]

----------------------------------------------------------------------------
(* The run: main, weather_data and the two outbound calls. *)

\* an outbound call: the geocoding query or the forecast request parameters
Call(api, query, lat, lon, ndays) ==
    [api |-> api, query |-> query, latitude |-> lat, longitude |-> lon,
     forecast_days |-> ndays]

\* the local variable data before line 63 has assigned it
Unassigned == JsonScalar("unassigned", 0)

NoGeo == [found |-> FALSE, lat |-> 0, lon |-> 0]

\* what locate.geocode(location) can give: a match with its coordinates, or
\* None (no match); the call can also raise (network)
GeoResults == {NoGeo, [found |-> TRUE, lat |-> 60, lon |-> 27]}

Init ==
    /\ pc = "main"
    /\ argv \in ArgLists
    /\ args = NoneValue
    /\ location = <<>>
    /\ days = 0
    /\ geo = NoGeo
    /\ data = Unassigned
    /\ rows = <<>>
    /\ stdout = <<>>
    /\ calls = <<>>

\* main, line 242: args = error_handler(user_args)
Validate ==
    /\ pc = "main"
    /\ args' = error_handler(argv).ret
    /\ stdout' = stdout \o error_handler(argv).out
    /\ pc' = "dispatch"
    /\ UNCHANGED <<argv, location, days, geo, data, rows, calls>>

\* main returning quietly when the validator gave None
DispatchNone_return ==
    /\ pc = "dispatch"
    /\ args.none
    /\ pc' = "done"
    /\ UNCHANGED <<argv, args, location, days, geo, data, rows, stdout, calls>>

\* main, line 244 with args = None: len(None) raises TypeError
DispatchNone ==
    /\ pc = "dispatch"
    /\ args.none
    /\ pc' = "except"
    /\ UNCHANGED <<argv, args, location, days, geo, data, rows, stdout, calls>>

\* main, lines 244-246: weather_data(location_user)
DispatchOne ==
    /\ pc = "dispatch"
    /\ ~args.none
    /\ Len(args.val) = 1
    /\ location' = args.val[1]
    /\ days' = DEFAULT_DAYS
    /\ pc' = "geocode"
    /\ UNCHANGED <<argv, args, geo, data, rows, stdout, calls>>

\* main clamping with days_user >= 7
DispatchTwo_ge7 ==
    /\ pc = "dispatch"
    /\ ~args.none
    /\ Len(args.val) = 2
    /\ LET n == int(args.val[2])
       IN  IF ~n.ok
           THEN /\ pc' = "except"
                /\ UNCHANGED <<location, days>>
           ELSE /\ location' = args.val[1]
                /\ days' = IF n.val <= 0 \/ n.val >= 7 THEN DEFAULT_DAYS ELSE n.val
                /\ pc' = "geocode"
    /\ UNCHANGED <<argv, args, geo, data, rows, stdout, calls>>

\* main clamping with days_user > 8
DispatchTwo_gt8 ==
    /\ pc = "dispatch"
    /\ ~args.none
    /\ Len(args.val) = 2
    /\ LET n == int(args.val[2])
       IN  IF ~n.ok
           THEN /\ pc' = "except"
                /\ UNCHANGED <<location, days>>
           ELSE /\ location' = args.val[1]
                /\ days' = IF n.val <= 0 \/ n.val > 8 THEN DEFAULT_DAYS ELSE n.val
                /\ pc' = "geocode"
    /\ UNCHANGED <<argv, args, geo, data, rows, stdout, calls>>

\* main, lines 248-255: weather_data(location_user, days_user)
DispatchTwo ==
    /\ pc = "dispatch"
    /\ ~args.none
    /\ Len(args.val) = 2
    /\ LET n == int(args.val[2])
       IN  IF ~n.ok
           THEN /\ pc' = "except"
                /\ UNCHANGED <<location, days>>
           ELSE /\ location' = args.val[1]
                /\ days' = IF n.val <= 0 \/ n.val > 7 THEN DEFAULT_DAYS ELSE n.val
                /\ pc' = "geocode"
    /\ UNCHANGED <<argv, args, geo, data, rows, stdout, calls>>

\* weather_data asking the geocoder again when it found nothing
Geocode_retry ==
    /\ pc = "geocode"
    /\ Len(calls) < 4
    /\ calls' = Append(calls, Call("geocode", location, 0, 0, 0))
    /\ \/ \E r \in GeoResults :
             /\ geo' = r
             /\ pc' = IF r.found THEN "request" ELSE "geocode"
       \/ /\ pc' = "except"
          /\ UNCHANGED geo
    /\ UNCHANGED <<argv, args, location, days, data, rows, stdout>>

\* weather_data, lines 42-43: locate.geocode(location).raw
Geocode ==
    /\ pc = "geocode"
    /\ calls' = Append(calls, Call("geocode", location, 0, 0, 0))
    /\ \/ \E r \in GeoResults :
             /\ geo' = r
             /\ pc' = IF r.found THEN "request" ELSE "except"
       \/ /\ pc' = "except"
          /\ UNCHANGED geo
    /\ UNCHANGED <<argv, args, location, days, data, rows, stdout>>

\* weather_data, lines 45-63: requests.get(BASE_URL, params).json()
ForecastGet ==
    /\ pc = "request"
    /\ calls' = Append(calls, Call("forecast", <<>>, geo.lat, geo.lon, days))
    /\ \/ \E d \in Payloads :
             /\ data' = d
             /\ pc' = "received"
       \/ /\ pc' = "except"
          /\ UNCHANGED data
    /\ UNCHANGED <<argv, args, location, days, geo, rows, stdout>>

\* weather_data, lines 65-66: create_table(location, days, data)
Render ==
    /\ pc = "received"
    /\ Truthy(data)
    /\ LET t == create_table(location, days, data)
       IN  /\ rows' = t.rows
           /\ stdout' = stdout \o t.out
           /\ pc' = IF t.raised THEN "except" ELSE "done"
    /\ UNCHANGED <<argv, args, location, days, geo, data, calls>>

\* weather_data, lines 67-68
NoData ==
    /\ pc = "received"
    /\ ~Truthy(data)
    /\ stdout' = Append(stdout, Line(MSG_NO_DATA))
    /\ pc' = "done"
    /\ UNCHANGED <<argv, args, location, days, geo, data, rows, calls>>

\* main, lines 256-257: how_to_message()
HowTo ==
    /\ pc = "except"
    /\ stdout' = Append(stdout, Line(MSG_USAGE))
    /\ pc' = "done"
    /\ UNCHANGED <<argv, args, location, days, geo, data, rows, calls>>

Next ==
    \/ Validate
    \/ DispatchNone
    \/ DispatchOne
    \/ DispatchTwo
    \/ Geocode
    \/ ForecastGet
    \/ Render
    \/ NoData
    \/ HowTo

Spec == Init /\ [][Next]_vars

----------------------------------------------------------------------------
(* Vocabulary of the properties. *)

IsText(s) == float(s) = "ValueError"

ValidationMessages ==
    {Line(MSG_NO_LOCATION), Line(MSG_FIRST_1), Line(MSG_FIRST_2), Line(MSG_SECOND)}
    \cup {LineN(MSG_TOO_MANY, n) : n \in 3..(MaxArgs + 1)}

\* error_handler has returned
Validated == pc # "main"

\* weather_data has been entered (main is past its dispatch)
Fetching == pc \in {"geocode", "request", "received"} \/ Len(calls) >= 1

ForecastCalls == {i \in 1..Len(calls) : calls[i].api = "forecast"}

GeocodeCalls == {i \in 1..Len(calls) : calls[i].api = "geocode"}

TablePrinted ==
    /\ Len(stdout) = 3
    /\ stdout[1].text \in {MSG_FORECAST, MSG_FORECAST \o "s"}
    /\ stdout[2] = Line("")
    /\ stdout[3].text = "DataFrame"

Rank(p) ==
    CASE p = "main" -> 0
      [] p = "dispatch" -> 1
      [] p = "geocode" -> 2
      [] p = "request" -> 3
      [] p = "received" -> 4
      [] p = "except" -> 5
      [] p = "done" -> 6

----------------------------------------------------------------------------
(* C1 *)

\* the days argument is an integer literal whose value is 0 or outside 1..7
DaysOutOfRange(s) == int(s).ok /\ int(s).val \notin 1..7

\* C1: for [location, days] with a textual location and an integer days that
\* is 0 or outside 1..7, error_handler returns the arguments and prints
\* nothing, and main calls weather_data(location, 3): the geocoding call is
\* made for the location and any forecast request carries forecast_days = 3.
C1_DaysClampedToDefault ==
    (/\ Validated
     /\ Len(argv) = 2
     /\ IsText(argv[1])
     /\ DaysOutOfRange(argv[2]))
    => /\ args = Some(argv)
       /\ pc = "dispatch" => stdout = <<>>
       /\ pc # "dispatch" =>
            /\ location = argv[1]
            /\ days = DEFAULT_DAYS
            /\ stdout # <<>> => stdout[1] \notin ValidationMessages
       /\ pc = "done" =>
            /\ Len(calls) >= 1
            /\ calls[1] = Call("geocode", argv[1], 0, 0, 0)
       /\ \A i \in ForecastCalls : calls[i].forecast_days = DEFAULT_DAYS

----------------------------------------------------------------------------
(* C2 *)

\* C2: a two-argument list is accepted only if the first argument is no
\* numeric literal and the second is an integer literal; a numeric first
\* argument is rejected whatever the second is; a non-integer second
\* argument is rejected, with the days-must-be-integer message when the
\* first argument is text.
C2_TwoArgumentsAccepted ==
    (Validated /\ Len(argv) = 2)
    => /\ ~args.none => (IsText(argv[1]) /\ int(argv[2]).ok /\ args = Some(argv))
       /\ ~IsText(argv[1]) => args.none
       /\ ~int(argv[2]).ok =>
            /\ args.none
            /\ IsText(argv[1]) => (stdout # <<>> /\ stdout[1] = Line(MSG_SECOND))

----------------------------------------------------------------------------
(* C3 *)

\* C3: a one-argument list whose argument is a numeric literal (zero-valued
\* ones included) is rejected with "First argument must be a string."; one
\* whose argument is no numeric literal is returned unchanged.
C3_OneArgument ==
    (Validated /\ Len(argv) = 1)
    => IF IsText(argv[1])
       THEN args = Some(argv) /\ (pc = "dispatch" => stdout = <<>>)
       ELSE /\ args.none
            /\ stdout # <<>>
            /\ stdout[1] = Line(MSG_FIRST_1)

----------------------------------------------------------------------------
(* C4 *)

\* C4: error_handler returns the arguments only for lists of length 1 or 2;
\* the empty list fails with "Location not provided" and every list longer
\* than 2 fails with the too-many-arguments message (naming the count),
\* whatever the arguments are.
C4_ArgumentCount ==
    Validated
    => /\ ~args.none => (Len(argv) \in {1, 2} /\ args = Some(argv))
       /\ Len(argv) = 0 =>
            (args.none /\ stdout # <<>> /\ stdout[1] = Line(MSG_NO_LOCATION))
       /\ Len(argv) > 2 =>
            (args.none /\ stdout # <<>> /\ stdout[1] = LineN(MSG_TOO_MANY, Len(argv)))

\* a list of three arguments, the first two of which would pass as
\* [location, days], has been rejected
C4_Witness ==
    /\ pc = "dispatch"
    /\ Len(argv) = 3
    /\ IsText(argv[1])
    /\ int(argv[2]).ok /\ int(argv[2]).val \in 1..7
    /\ args.none
    /\ stdout = <<LineN(MSG_TOO_MANY, 3)>>

----------------------------------------------------------------------------
(* C5 *)

\* the days main passes for arguments the validator returned, in the cases
\* the claim covers: the default for [loc], the integer itself for
\* [loc, d] with d in 1..7
PassedDays ==
    IF Len(argv) = 1 THEN DEFAULT_DAYS ELSE int(argv[2]).val

C5_Covered ==
    /\ ~args.none
    /\ Len(argv) = 1 \/ (Len(argv) = 2 /\ int(argv[2]).ok /\ int(argv[2]).val \in 1..7)

\* C5: when error_handler returns the arguments, main calls weather_data
\* with them: [loc] fetches for loc with 3 days, [loc, d] with d in 1..7
\* fetches for loc with d days; the geocoding query is loc and the forecast
\* request carries that number as forecast_days.
C5_FetchWithValidatedValues ==
    (Validated /\ C5_Covered)
    => /\ pc \notin {"dispatch", "except", "done"} =>
            (location = argv[1] /\ days = PassedDays)
       /\ pc \in {"except", "done"} => Len(calls) >= 1
       /\ \A i \in GeocodeCalls : calls[i].query = argv[1]
       /\ \A i \in ForecastCalls : calls[i].forecast_days = PassedDays

\* Kotka 5 has led to a forecast request for 5 days and a printed table
C5_Witness ==
    /\ pc = "done"
    /\ argv = << <<"K", "o", "t", "k", "a">>, <<"5">> >>
    /\ calls[1].query = <<"K", "o", "t", "k", "a">>
    /\ Len(calls) = 2
    /\ calls[2].forecast_days = 5
    /\ TablePrinted

----------------------------------------------------------------------------
(* C6 *)

\* the four ways a run may end
Outcomes ==
    \/ TablePrinted
    \/ /\ Len(stdout) = 2
       /\ stdout[1] \in ValidationMessages
       /\ stdout[2] = Line(MSG_USAGE)
    \/ stdout = <<Line(MSG_NO_DATA)>>
    \/ stdout = <<Line(MSG_USAGE)>>

\* C6: every failure after the arguments are read (validator returning
\* None, no geocoding match, transport failure, malformed response,
\* rendering error) reaches main's except clause, which prints the usage
\* banner; a finished run shows a forecast table, a validation message
\* followed by the usage banner, "No data from query." or the usage banner
\* alone, and the banner is there whenever the validator rejected.
C6_EveryFailureEndsInUsage ==
    /\ pc = "except" => ENABLED HowTo
    /\ pc = "done" =>
         /\ Outcomes
         /\ args.none => stdout[Len(stdout)] = Line(MSG_USAGE)
         /\ (~TablePrinted /\ stdout # <<Line(MSG_NO_DATA)>>)
              => stdout[Len(stdout)] = Line(MSG_USAGE)

\* a forecast response whose dates do not parse has ended in the banner
C6_Witness ==
    /\ pc = "done"
    /\ Len(calls) = 2
    /\ Truthy(data)
    /\ data.type = "dict"
    /\ "daily" \in data.keys
    /\ stdout = <<Line(MSG_USAGE)>>

----------------------------------------------------------------------------
(* C7 *)

\* C7: a falsy forecast payload prints "No data from query." and nothing
\* else: create_table is not called (no rows, no table), the banner is not
\* printed, the run ends; a table is printed only for a truthy payload.
C7_EmptyPayload ==
    /\ data \in Falsy =>
         /\ ~ENABLED Render
         /\ rows = <<>>
         /\ pc \in {"received", "done"}
         /\ pc = "done" => stdout = <<Line(MSG_NO_DATA)>>
    /\ (TablePrinted \/ rows # <<>>) => (data # Unassigned /\ data \notin Falsy)

\* the empty JSON object has been answered with the notice alone
C7_Witness ==
    /\ pc = "done"
    /\ data = JsonScalar("dict", 0)
    /\ stdout = <<Line(MSG_NO_DATA)>>

----------------------------------------------------------------------------
(* C8 *)

C8_Order ==
    /\ Len(calls) <= 2
    /\ Len(calls) >= 1 =>
         /\ calls[1].api = "geocode"
         /\ Validated /\ ~args.none
         /\ pc \notin {"main", "dispatch"}
    /\ (Validated /\ args.none) => calls = <<>>
    /\ Len(calls) = 2 =>
         /\ calls[2].api = "forecast"
         /\ geo.found
         /\ calls[2].latitude = geo.lat /\ calls[2].longitude = geo.lon
    /\ ~geo.found => ForecastCalls = {}
    /\ pc \in {"request", "received"} => geo.found
    /\ data # Unassigned => Len(calls) = 2
    /\ TablePrinted =>
         /\ Cardinality(GeocodeCalls) = 1
         /\ Cardinality(ForecastCalls) = 1
         /\ data # Unassigned

\* every step moves the run to a later position, and never removes a call
C8_Forward ==
    /\ Rank(pc') > Rank(pc)
    /\ Len(calls') >= Len(calls)
    /\ SubSeq(calls', 1, Len(calls)) = calls

\* C8: the steps of a run happen strictly forward and each at most once:
\* validation, geocoding call, forecast GET, rendering.  The geocoding call
\* is made only after the validator returned the arguments, the forecast
\* GET only after geocoding returned a match, and a run that prints a table
\* has made exactly one geocoding call and exactly one forecast call.
C8_StrictlyForward == [](C8_Order) /\ [][C8_Forward]_vars

\* a table has been printed after one geocoding and one forecast call
C8_Witness ==
    /\ pc = "done"
    /\ TablePrinted
    /\ Len(calls) = 2
    /\ calls[1].api = "geocode"
    /\ calls[2].api = "forecast"

----------------------------------------------------------------------------
(* C9 *)

\* C9: whatever the command line, every forecast request carries a
\* forecast_days in 1..7: the days argument when it is an integer in 1..7,
\* the default 3 otherwise.
C9_ForecastDaysInRange ==
    \A i \in ForecastCalls :
        /\ calls[i].forecast_days \in 1..7
        /\ calls[i].forecast_days =
             IF Len(argv) = 2 /\ int(argv[2]).ok /\ int(argv[2]).val \in 1..7
             THEN int(argv[2]).val
             ELSE DEFAULT_DAYS

\* a request made for the days argument 8 asks for 3 days
C9_Witness ==
    /\ Len(argv) = 2
    /\ argv[2] = <<"8">>
    /\ ForecastCalls # {}
    /\ \A i \in ForecastCalls : calls[i].forecast_days = 3

----------------------------------------------------------------------------
(* C10 *)

ColumnLengths == {Len(data.daily[c]) : c \in DAILY_COLUMNS}

\* the printed texts of day offset k, written out independently of the
\* conversions: dd.09.2025, 06:mm, 19:mm
DayText(k) == Pad(26 + k, 2) \o <<".", "0", "9", ".", "2", "0", "2", "5">>

SunriseText(k) == <<"0", "6", ":">> \o Pad(10 + k, 2)

SunsetText(k) == <<"1", "9", ":">> \o Pad(40 - k, 2)

\* the day offset a time text of the response stands for
OffsetOfDate(t) == CHOOSE k \in 1..MaxDays : t = IsoDate(2025, 9, 26 + k)

\* C10: create_table zips by position: there are as many rows as the daily
\* sequences are long (as the shortest is, should they differ), and row i
\* holds the i-th element of time, temperature max/min, apparent max/min,
\* sunrise, sunset and rain, in this order, dates and times reformatted, so
\* that every row is the row of one day offset.
C10_RowsZipByPosition ==
    TablePrinted =>
        /\ \A n \in ColumnLengths : Len(rows) <= n
        /\ Len(rows) \in ColumnLengths
        /\ stdout[3].n = Len(rows)
        /\ \A i \in 1..Len(rows) :
             /\ Len(rows[i]) = 8
             /\ rows[i][1] = DayText(OffsetOfDate(data.daily.time[i]))
             /\ rows[i][2] = data.daily.temperature_2m_max[i]
             /\ rows[i][3] = data.daily.temperature_2m_min[i]
             /\ rows[i][4] = data.daily.apparent_temperature_max[i]
             /\ rows[i][5] = data.daily.apparent_temperature_min[i]
             /\ rows[i][6] = SunriseText(rows[i][8])
             /\ rows[i][7] = SunsetText(rows[i][8])
             /\ rows[i][8] = data.daily.rain_sum[i]
             /\ rows[i][8] = OffsetOfDate(data.daily.time[i])

\* two days in the order 2, 1 have been printed as two rows in that order
C10_Witness ==
    /\ pc = "done"
    /\ TablePrinted
    /\ ColumnLengths = {2}
    /\ Len(rows) = 2
    /\ rows[1][8] = 2
    /\ rows[2][8] = 1
    /\ rows[1][1] = <<"2", "8", ".", "0", "9", ".", "2", "0", "2", "5">>
    /\ rows[2][1] = <<"2", "7", ".", "0", "9", ".", "2", "0", "2", "5">>

====
